---- MODULE Spec2Model ----
(***************************************************************************)
(* A model of DeliveryRobot.js: the road graph (buildGraph), the world     *)
(* state and its move, the simulation loop runRobot with its strategies,   *)
(* and the two breadth-first searches findRoute and calculateDistance.     *)
(*                                                                         *)
(* An edge descriptor "A-B" is a sequence of tokens <<"A", "-", "B">>: a   *)
(* place name is one token, "-" is the separator token.                    *)
(***************************************************************************)
EXTENDS Integers, Sequences, FiniteSets, TLC

VARIABLES
    edges,      \* buildGraph's argument: a list of edge descriptors
    graph,      \* the graph the searches run on (buildGraph's result)
    pc,         \* where the search driver is: "build", "idle", "findRoute", "calcDist", "frDone", "cdDone"
    from,       \* the running search's from argument
    to,         \* the running search's to argument
    work,       \* findRoute: the work list, a sequence of [at, route]
    wi,         \* findRoute: the loop index i (0-based, as in the code)
    queue,      \* calculateDistance: the queue, a sequence of <<node, distance>>
    visited,    \* calculateDistance: the visited set
    result,     \* the value the finished search returned
    self,       \* the WorldState the latest move was called on
    destination,\* the latest move's argument
    moved,      \* the WorldState the latest move returned
    selfAfter,  \* the WorldState the latest move was called on, as it is after the call
    task,       \* the WorldState handed to runRobot
    robot,      \* the name of the strategy runRobot drives
    state,      \* runRobot's state
    memory,     \* runRobot's memory
    turn,       \* runRobot's turn counter
    rpc,        \* where runRobot is: "run", "done", "threw", and "off" when it is not run
    returned,   \* the turn count runRobot returned
    calls,      \* how many times runRobot has invoked the strategy
    calledOnSolved, \* whether the strategy was ever handed a state with no parcels
    aliased,    \* whether runRobot's state is still the very object it was handed
    plan,       \* the latest route a strategy planned: the state it saw, its target, the route
    lastAction, \* the latest turn: the place the robot was at and the direction returned
    heap,       \* the PGroup instances made so far, in order of construction
    created,    \* for each PGroup instance, its group array as it was when constructed
    last,       \* the latest PGroup call: its name, receiver, argument, result
    cpc,        \* where compareRobots is: "loop", "first", "second", "returned", and "off"
    robot1,     \* compareRobots' first strategy
    robot2,     \* compareRobots' second strategy
    taskCount,  \* compareRobots' tasks argument
    taskNo,     \* compareRobots' loop counter i
    robot1TotalTurns, \* compareRobots' sum of the first strategy's turn counts
    robot2TotalTurns, \* compareRobots' sum of the second strategy's turn counts
    generated,  \* the current task as WorldState.random produced it
    handed,     \* the state and memory runRobot was handed in each run on the current task
    comparison  \* what compareRobots returned

gvars == <<edges, graph, pc, from, to, work, wi, queue, visited, result>>
mvars == <<self, destination, moved, selfAfter>>
rvars == <<task, robot, state, memory, turn, rpc, returned, calls, calledOnSolved,
           aliased, plan, lastAction>>
pvars == <<heap, created, last>>
cvars == <<cpc, robot1, robot2, taskCount, taskNo, robot1TotalTurns, robot2TotalTurns,
          generated, handed, comparison>>
vars == <<gvars, mvars, rvars, pvars, cvars>>

----------------------------------------------------------------------------
(* Bounds of the model. *)

\* the longest list of edge descriptors buildGraph is given
MaxEdges == 2

\* the place names the bounded edge lists are drawn from
Locs == {"A", "B", "C", "D"}

----------------------------------------------------------------------------
(* Values of the language. *)

\* what a function that falls off its end returns, where a route is expected
Undefined == <<"undefined">>

\* the number Infinity: larger than every distance
Infinity == 1000000000

NoGraph == [k \in {} |-> <<>>]

NoState == [place |-> "", parcels |-> <<>>]

NoPlan == [state |-> NoState, target |-> "", route |-> <<>>]

NoAction == [at |-> "", direction |-> ""]

\* no PGroup call yet
NoCall == [op |-> "none", this |-> 0, x |-> "", arr |-> <<>>, returned |-> 0, before |-> 0]

\* an average a / b, kept as the two numbers it is the quotient of
Average(a, b) == [turns |-> a, tasks |-> b]

\* compareRobots has not returned
NoComparison ==
    [robot1 |-> [name |-> "", averageTurns |-> Average(0, 0)],
     robot2 |-> [name |-> "", averageTurns |-> Average(0, 0)]]

\* the sequences of at most n elements of S
RECURSIVE SeqsUpTo(_, _)
SeqsUpTo(S, n) ==
    IF n = 0 THEN {<<>>}
    ELSE LET shorter == SeqsUpTo(S, n - 1)
         IN  shorter \cup {Append(s, x) : s \in {t \in shorter : Len(t) = n - 1}, x \in S}

----------------------------------------------------------------------------
(* The roads of the village. *)

roads ==
    << <<"Alice's House", "-", "Bob's House">>,
       <<"Alice's House", "-", "Cabin">>,
       <<"Alice's House", "-", "Post Office">>,
       <<"Bob's House", "-", "Town Hall">>,
       <<"Daria's House", "-", "Ernie's House">>,
       <<"Daria's House", "-", "Town Hall">>,
       <<"Ernie's House", "-", "Grete's House">>,
       <<"Grete's House", "-", "Farm">>,
       <<"Grete's House", "-", "Shop">>,
       <<"Marketplace", "-", "Post Office">>,
       <<"Marketplace", "-", "Town Hall">>,
       <<"Marketplace", "-", "Farm">>,
       <<"Marketplace", "-", "Shop">>,
       <<"Shop", "-", "Town Hall">> >>

\* r.split("-"): the tokens of r between the separators
split(r) == SelectSeq(r, LAMBDA t : t # "-")

\* addEdge that overwrites the list of a known key
addEdgeOverwrite(g, f, t) ==
    [k \in DOMAIN g \cup {f} |-> IF k = f THEN <<t>> ELSE g[k]]

\* addEdge(from, to) on graph g: a new key gets [to], a known key has to pushed
addEdge(g, f, t) ==
    IF f \notin DOMAIN g
    THEN [k \in DOMAIN g \cup {f} |-> IF k = f THEN <<t>> ELSE g[k]]
    ELSE [g EXCEPT ![f] = Append(g[f], t)]

\* buildGraph's loop without addEdge(to, from)
RECURSIVE buildFromOneWay(_, _, _)
buildFromOneWay(g, es, k) ==
    IF k > Len(es) THEN g
    ELSE LET parts == split(es[k])
         IN  buildFromOneWay(addEdge(g, parts[1], parts[2]), es, k + 1)

\* the for loop of buildGraph over edges[k..], starting from graph g
RECURSIVE buildFrom(_, _, _)
buildFrom(g, es, k) ==
    IF k > Len(es) THEN g
    ELSE LET parts == split(es[k])
             f == parts[1]
             t == parts[2]
         IN  buildFrom(addEdge(addEdge(g, f, t), t, f), es, k + 1)

buildGraph(es) == buildFrom(NoGraph, es, 1)

roadGraph == buildGraph(roads)

----------------------------------------------------------------------------
(* findRoute. *)

\* scanPlaces without the check that a place is already in the work list
RECURSIVE scanPlacesNoSeenCheck(_, _, _, _, _)
scanPlacesNoSeenCheck(places, k, goal, route, w) ==
    IF k > Len(places) THEN [found |-> FALSE, route |-> <<>>, work |-> w]
    ELSE IF places[k] = goal
         THEN [found |-> TRUE, route |-> Append(route, places[k]), work |-> w]
    ELSE scanPlacesNoSeenCheck(places, k + 1, goal, route,
                               Append(w, [at |-> places[k], route |-> Append(route, places[k])]))

\* the for loop over graph[at] from its k-th place on: the route returned when a
\* place is the goal, else the work list with every place not yet in it pushed
RECURSIVE scanPlaces(_, _, _, _, _)
scanPlaces(places, k, goal, route, w) ==
    IF k > Len(places) THEN [found |-> FALSE, route |-> <<>>, work |-> w]
    ELSE IF places[k] = goal
         THEN [found |-> TRUE, route |-> Append(route, places[k]), work |-> w]
    ELSE IF \A n \in 1..Len(w) : w[n].at # places[k]
         THEN scanPlaces(places, k + 1, goal, route,
                         Append(w, [at |-> places[k], route |-> Append(route, places[k])]))
    ELSE scanPlaces(places, k + 1, goal, route, w)

\* findRoute's iteration returning the route without the goal appended
findRouteIterDropsGoal(g, goal, w, i) ==
    LET r == scanPlaces(g[w[i + 1].at], 1, goal, w[i + 1].route, w)
    IN  IF r.found THEN [r EXCEPT !.route = w[i + 1].route] ELSE r

\* one iteration of the outer loop of findRoute, on work[i] (i counted from 0)
findRouteIter(g, goal, w, i) ==
    scanPlaces(g[w[i + 1].at], 1, goal, w[i + 1].route, w)

\* the outer loop of findRoute from index i on
RECURSIVE findRouteLoop(_, _, _, _)
findRouteLoop(g, goal, w, i) ==
    IF ~(i < Len(w)) THEN Undefined
    ELSE LET r == findRouteIter(g, goal, w, i)
         IN  IF r.found THEN r.route ELSE findRouteLoop(g, goal, r.work, i + 1)

findRoute(g, f, t) == findRouteLoop(g, t, <<[at |-> f, route |-> <<>>]>>, 0)

----------------------------------------------------------------------------
(* calculateDistance. *)

\* the for loop over graph[current] from its k-th neighbor on: every neighbor
\* that is not visited is pushed with distance d
RECURSIVE pushNeighbors(_, _, _, _, _)
pushNeighbors(nbrs, k, vis, d, q) ==
    IF k > Len(nbrs) THEN q
    ELSE IF nbrs[k] \notin vis
         THEN pushNeighbors(nbrs, k + 1, vis, d, Append(q, <<nbrs[k], d>>))
    ELSE pushNeighbors(nbrs, k + 1, vis, d, q)

\* calculateDistance's iteration taking the newest queue entry (pop for shift)
calcDistanceIterPop(g, goal, q, vis) ==
    LET current == q[Len(q)][1]
        distance == q[Len(q)][2]
        rest == SubSeq(q, 1, Len(q) - 1)
    IN  IF current = goal
        THEN [found |-> TRUE, distance |-> distance, queue |-> rest, visited |-> vis]
        ELSE [found |-> FALSE, distance |-> distance,
              queue |-> pushNeighbors(g[current], 1, vis \cup {current}, distance + 1, rest),
              visited |-> vis \cup {current}]

\* one iteration of the while loop of calculateDistance on a non-empty queue
calcDistanceIter(g, goal, q, vis) ==
    LET current == Head(q)[1]
        distance == Head(q)[2]
    IN  IF current = goal
        THEN [found |-> TRUE, distance |-> distance, queue |-> Tail(q), visited |-> vis]
        ELSE [found |-> FALSE, distance |-> distance,
              queue |-> pushNeighbors(g[current], 1, vis \cup {current}, distance + 1, Tail(q)),
              visited |-> vis \cup {current}]

RECURSIVE calcDistanceLoop(_, _, _, _)
calcDistanceLoop(g, goal, q, vis) ==
    IF ~(Len(q) > 0) THEN Infinity
    ELSE LET r == calcDistanceIter(g, goal, q, vis)
         IN  IF r.found THEN r.distance ELSE calcDistanceLoop(g, goal, r.queue, r.visited)

calculateDistance(g, f, t) == calcDistanceLoop(g, t, << <<f, 0>> >>, {})

----------------------------------------------------------------------------
(* The searches, run one loop iteration at a time on a graph that buildGraph  *)
(* made from a bounded list of edge descriptors, or from the village's roads. *)

\* the variables of the other parts of the model, when they are not run
MoveIdle ==
    self = NoState /\ destination = "" /\ moved = NoState /\ selfAfter = NoState

RobotIdle ==
    /\ task = NoState /\ robot = "" /\ state = NoState /\ memory = <<>>
    /\ turn = 0 /\ rpc = "off" /\ returned = 0 /\ calls = 0 /\ calledOnSolved = FALSE
    /\ aliased = FALSE /\ plan = NoPlan /\ lastAction = NoAction

GraphIdle ==
    /\ edges = <<>> /\ graph = NoGraph /\ pc = "off"
    /\ from = "" /\ to = ""
    /\ work = <<>> /\ wi = 0
    /\ queue = <<>> /\ visited = {}
    /\ result = <<>>

PGroupIdle ==
    heap = <<>> /\ created = <<>> /\ last = NoCall

CompareIdle ==
    /\ cpc = "off" /\ robot1 = "" /\ robot2 = ""
    /\ taskCount = 0 /\ taskNo = 0
    /\ robot1TotalTurns = 0 /\ robot2TotalTurns = 0
    /\ generated = NoState /\ handed = <<>>
    /\ comparison = NoComparison

\* a road joins two different places
Descriptors == {<<e[1], "-", e[2]>> : e \in {x \in Locs \X Locs : x[1] # x[2]}}

EdgeLists == SeqsUpTo(Descriptors, MaxEdges) \cup {roads}

GraphInit ==
    /\ edges \in EdgeLists
    /\ graph = NoGraph
    /\ pc = "build"
    /\ from = "" /\ to = ""
    /\ work = <<>> /\ wi = 0
    /\ queue = <<>> /\ visited = {}
    /\ result = <<>>
    /\ MoveIdle /\ RobotIdle /\ PGroupIdle /\ CompareIdle

\* const graph = buildGraph(edges)
BuildGraph ==
    /\ pc = "build"
    /\ graph' = buildGraph(edges)
    /\ pc' = "idle"
    /\ UNCHANGED <<edges, from, to, work, wi, queue, visited, result>>
    /\ UNCHANGED <<mvars, rvars, pvars, cvars>>

\* the arguments of a search: from is a place of the graph, to is any name
Targets == (DOMAIN graph) \cup Locs

\* findRoute(graph, f, t) is called: let work = [{at: from, route: []}], i = 0
FindRouteCall(f, t) ==
    /\ pc = "idle"
    /\ pc' = "findRoute"
    /\ from' = f /\ to' = t
    /\ work' = <<[at |-> f, route |-> <<>>]>>
    /\ wi' = 0
    /\ queue' = <<>> /\ visited' = {}
    /\ result' = <<>>
    /\ UNCHANGED <<edges, graph>>
    /\ UNCHANGED <<mvars, rvars, pvars, cvars>>

\* one iteration of findRoute's outer loop, or its exit when i reaches work.length
FindRouteStep ==
    /\ pc = "findRoute"
    /\ IF ~(wi < Len(work))
       THEN /\ result' = Undefined
            /\ pc' = "frDone"
            /\ UNCHANGED <<work, wi>>
       ELSE LET r == findRouteIter(graph, to, work, wi)
            IN  IF r.found
                THEN /\ result' = r.route
                     /\ pc' = "frDone"
                     /\ UNCHANGED <<work, wi>>
                ELSE /\ work' = r.work
                     /\ wi' = wi + 1
                     /\ UNCHANGED <<result, pc>>
    /\ UNCHANGED <<edges, graph, from, to, queue, visited>>
    /\ UNCHANGED <<mvars, rvars, pvars, cvars>>

\* calculateDistance(graph, f, t) is called: visited = new Set(), queue = [[from, 0]]
CalcDistanceCall(f, t) ==
    /\ pc = "idle"
    /\ pc' = "calcDist"
    /\ from' = f /\ to' = t
    /\ queue' = << <<f, 0>> >>
    /\ visited' = {}
    /\ work' = <<>> /\ wi' = 0
    /\ result' = <<>>
    /\ UNCHANGED <<edges, graph>>
    /\ UNCHANGED <<mvars, rvars, pvars, cvars>>

\* one iteration of calculateDistance's while loop, or its exit on an empty queue
CalcDistanceStep ==
    /\ pc = "calcDist"
    /\ IF ~(Len(queue) > 0)
       THEN /\ result' = Infinity
            /\ pc' = "cdDone"
            /\ UNCHANGED <<queue, visited>>
       ELSE LET r == calcDistanceIter(graph, to, queue, visited)
            IN  IF r.found
                THEN /\ result' = r.distance
                     /\ pc' = "cdDone"
                     /\ UNCHANGED <<queue, visited>>
                ELSE /\ queue' = r.queue
                     /\ visited' = r.visited
                     /\ UNCHANGED <<result, pc>>
    /\ UNCHANGED <<edges, graph, from, to, work, wi>>
    /\ UNCHANGED <<mvars, rvars, pvars, cvars>>

GraphNext ==
    \/ BuildGraph
    \/ \E f \in DOMAIN graph, t \in Targets : FindRouteCall(f, t)
    \/ FindRouteStep
    \/ \E f \in DOMAIN graph, t \in Targets : CalcDistanceCall(f, t)
    \/ CalcDistanceStep

GraphSpec == GraphInit /\ [][GraphNext]_vars

\* the loops of the searches are run to their end
GraphFairSpec == GraphSpec /\ WF_vars(FindRouteStep) /\ WF_vars(CalcDistanceStep)

----------------------------------------------------------------------------
(* What the claims about the graph and the searches speak of. *)

\* the places graph g lists for place a
Neighbours(g, a) == {g[a][k] : k \in 1..Len(g[a])}

\* the places at most k roads away from a place of S
RECURSIVE WithinHops(_, _, _)
WithinHops(g, S, k) ==
    IF k = 0 THEN S
    ELSE WithinHops(g, S \cup UNION {Neighbours(g, a) : a \in S \cap DOMAIN g}, k - 1)

Reachable(g, f, t) == t \in WithinHops(g, {f}, Cardinality(DOMAIN g))

\* the least number of roads on a path from f to t, Infinity when there is none
MinHops(g, f, t) ==
    IF ~Reachable(g, f, t) THEN Infinity
    ELSE CHOOSE k \in 0..Cardinality(DOMAIN g) :
            /\ t \in WithinHops(g, {f}, k)
            /\ \A j \in 0..(k - 1) : t \notin WithinHops(g, {f}, j)

\* route leads from f along roads of g
FollowsRoads(g, f, route) ==
    \A k \in 1..Len(route) :
        LET prev == IF k = 1 THEN f ELSE route[k - 1]
        IN  prev \in DOMAIN g /\ route[k] \in Neighbours(g, prev)

\* C3: findRoute(graph, X, X) returns an empty route for every location X of
\* the graph.
C3_SamePlaceEmptyRoute ==
    (pc = "frDone" /\ from = to) => result = <<>>

\* C4: for distinct from and to with to reachable, findRoute returns a route
\* that excludes from, ends at to, follows roads from from, and whose length is
\* the minimum hop count, which is also what calculateDistance returns.
C4_RouteIsShortest ==
    (pc = "frDone" /\ from # to /\ Reachable(graph, from, to)) =>
        /\ result # Undefined
        /\ Len(result) >= 1
        /\ \A k \in 1..Len(result) : result[k] # from
        /\ result[Len(result)] = to
        /\ FollowsRoads(graph, from, result)
        /\ Len(result) = MinHops(graph, from, to)
        /\ Len(result) = calculateDistance(graph, from, to)

C4_Witness ==
    /\ pc = "frDone" /\ from # to
    /\ result # Undefined /\ Len(result) >= 3
    /\ edges = roads

NoPlaceTwiceInWork ==
    \A m, n \in 1..Len(work) : work[m].at = work[n].at => m = n

\* C5: on any finite graph findRoute terminates; no location is in the work
\* list twice, and when to is not reachable the function returns undefined.
C5_FindRouteTerminates ==
    /\ [](pc = "findRoute" => NoPlaceTwiceInWork /\ Len(work) <= Cardinality(DOMAIN graph))
    /\ [](pc = "frDone" /\ ~Reachable(graph, from, to) => result = Undefined)
    /\ ((pc = "findRoute") ~> (pc = "frDone"))

C5_Witness ==
    /\ pc = "frDone" /\ ~Reachable(graph, from, to)
    /\ to \in DOMAIN graph
    /\ result = Undefined
    /\ Len(work) >= 2

QueueHoldsPlaceTwice ==
    \E m, n \in 1..Len(queue) : m # n /\ queue[m][1] = queue[n][1]

\* C6: calculateDistance terminates and returns the minimum number of roads
\* from from to to: 0 when they are equal, Infinity when to is unreachable,
\* although a location can be in the queue more than once.
C6_DistanceIsMinHops ==
    /\ [](pc = "cdDone" => result = MinHops(graph, from, to))
    /\ [](pc = "cdDone" /\ from = to => result = 0)
    /\ [](pc = "cdDone" /\ ~Reachable(graph, from, to) => result = Infinity)
    /\ ((pc = "calcDist") ~> (pc = "cdDone"))

C6_Witness ==
    /\ pc = "cdDone" /\ result >= 2 /\ result # Infinity
    /\ QueueHoldsPlaceTwice

\* C7: on a graph built by buildGraph, calculateDistance(graph, A, B) equals
\* calculateDistance(graph, B, A) for all locations A and B.
C7_DistanceSymmetric ==
    (pc = "cdDone" /\ to \in DOMAIN graph) =>
        result = calculateDistance(graph, to, from)

C7_Witness ==
    /\ pc = "cdDone" /\ to \in DOMAIN graph /\ from # to
    /\ result >= 2 /\ result # Infinity

\* the names an edge descriptor list mentions
Endpoints(es) == {split(es[k])[1] : k \in 1..Len(es)} \cup {split(es[k])[2] : k \in 1..Len(es)}

\* C8: in a graph produced by buildGraph, graph[B] contains A if and only if
\* graph[A] contains B, and every endpoint named in an edge is a key.
C8_AdjacencySymmetric ==
    pc # "build" =>
        /\ \A a \in DOMAIN graph : \A b \in Neighbours(graph, a) :
               b \in DOMAIN graph /\ a \in Neighbours(graph, b)
        /\ Endpoints(edges) \subseteq DOMAIN graph

C8_Witness ==
    /\ pc = "idle"
    /\ Len(edges) >= 2
    /\ \E a \in DOMAIN graph : Len(graph[a]) >= 2

----------------------------------------------------------------------------
(* WorldState. *)

\* array.includes(x)
includes(array, x) == \E k \in 1..Len(array) : array[k] = x

\* movedParcels without the filter: a delivered parcel stays in the list
movedParcelsKeepDelivered(s, d) ==
    [k \in 1..Len(s.parcels) |->
        IF s.parcels[k].place # s.place THEN s.parcels[k]
        ELSE [place |-> d, address |-> s.parcels[k].address]]

\* the parcels of a moved state: those at the old place go along to the
\* destination, then those that are at their address are dropped
movedParcels(s, d) ==
    LET carry(p) == IF p.place # s.place THEN p ELSE [place |-> d, address |-> p.address]
        mapped == [k \in 1..Len(s.parcels) |-> carry(s.parcels[k])]
    IN  SelectSeq(mapped, LAMBDA p : p.place # p.address)

\* move without the check that a road leads to d
moveAnywhere(s, d) == [place |-> d, parcels |-> movedParcels(s, d)]

\* s.move(d)
move(s, d) ==
    IF ~includes(roadGraph[s.place], d)
    THEN s
    ELSE [place |-> d, parcels |-> movedParcels(s, d)]

\* a move that writes the new place and parcels into the object it is called on
moveCallInPlace(s, d) ==
    [this |-> move(s, d), returned |-> move(s, d), same |-> TRUE]

\* the call s.move(d) on objects: what the object it is called on holds after
\* the call (move assigns to no field of this and of no parcel), what the
\* returned object holds, and whether the returned object is this itself
moveCall(s, d) ==
    [this |-> s, returned |-> move(s, d), same |-> ~includes(roadGraph[s.place], d)]

\* the parcels drawn without the do-while loop that resamples place
randomParcelsNoResample(places) ==
    {[place |-> x[2], address |-> x[1]] : x \in places \X places}

\* the parcels the do-while loop of WorldState.random can draw from places
randomParcels(places) ==
    {[place |-> x[2], address |-> x[1]] : x \in {y \in places \X places : y[2] # y[1]}}

\* WorldState.random(parcelCount), its picks drawn from places
WorldStateRandom(places, parcelCount) ==
    {[place |-> "Post Office", parcels |-> ps] :
        ps \in {q \in SeqsUpTo(randomParcels(places), parcelCount) : Len(q) = parcelCount}}

----------------------------------------------------------------------------
(* move, called again and again with any argument. *)

\* the most parcels of a state move is tried on
MaxMoveParcels == 3

\* the places those parcels are drawn from
MoveParcelPlaces == {"Post Office", "Alice's House", "Cabin"}

\* move's arguments: every place, and a name that is no place
Destinations == (DOMAIN roadGraph) \cup {"Nowhere"}

MoveInit ==
    /\ self \in UNION {WorldStateRandom(MoveParcelPlaces, n) : n \in 0..MaxMoveParcels}
    /\ moved = self
    /\ selfAfter = self
    /\ destination = ""
    /\ GraphIdle /\ RobotIdle /\ PGroupIdle /\ CompareIdle

\* let next = moved.move(d)
Move(d) ==
    /\ self' = moved
    /\ destination' = d
    /\ moved' = moveCall(moved, d).returned
    /\ selfAfter' = moveCall(moved, d).this
    /\ UNCHANGED <<gvars, rvars, pvars, cvars>>

MoveNext == \E d \in Destinations : Move(d)

MoveSpec == MoveInit /\ [][MoveNext]_vars

\* C1: for a state whose place is a key of roadGraph and a destination that is
\* not a neighbour of that place, move returns a state equal to the original
\* one: same place, same parcel list.
C1_IllegalMoveIsNoOp ==
    (destination # "" /\ ~includes(roadGraph[self.place], destination)) =>
        /\ self.place \in DOMAIN roadGraph
        /\ moved = self
        /\ moved.place = self.place /\ moved.parcels = self.parcels

C1_Witness ==
    /\ destination \in DOMAIN roadGraph
    /\ destination # self.place
    /\ ~includes(roadGraph[self.place], destination)
    /\ \E k \in 1..Len(self.parcels) : self.parcels[k].place = self.place
    /\ \E k \in 1..Len(self.parcels) : self.parcels[k].address = destination
    /\ moved = self

\* C2: after a valid move the new place is the destination; a parcel that was
\* at the old place is at the destination, or gone when the destination is its
\* address; the parcels that were elsewhere are unchanged; the order is kept.
C2_ValidMoveCarriesAndDelivers ==
    (destination # "" /\ includes(roadGraph[self.place], destination)) =>
        LET old == self.parcels
            new == moved.parcels
            delivered(k) == old[k].place = self.place /\ old[k].address = destination
            kept == {k \in 1..Len(old) : ~delivered(k)}
            nth(j) == CHOOSE k \in kept : Cardinality({i \in kept : i <= k}) = j
            expected(k) == IF old[k].place = self.place
                           THEN [place |-> destination, address |-> old[k].address]
                           ELSE old[k]
        IN  /\ moved.place = destination
            /\ Len(new) = Cardinality(kept)
            /\ \A j \in 1..Len(new) : new[j] = expected(nth(j))

C2_Witness ==
    /\ destination # "" /\ includes(roadGraph[self.place], destination)
    /\ Len(self.parcels) = 3 /\ Len(moved.parcels) = 2
    /\ self.parcels[1].place # self.place
    /\ self.parcels[2].place = self.place /\ self.parcels[2].address = destination
    /\ self.parcels[3].place = self.place /\ self.parcels[3].address # destination
    /\ moved.parcels[1] = self.parcels[1]
    /\ moved.parcels[2].place = destination

\* every parcel of s is away from its address
NoParcelAtItsAddress(s) ==
    \A k \in 1..Len(s.parcels) : s.parcels[k].place # s.parcels[k].address

\* C12: in every state produced by WorldState.random and in every state reached
\* from it by any sequence of move calls, legal or illegal, each parcel has a
\* place different from its address: a parcel that reaches its address is
\* removed, never retained.
C12_NoParcelAtItsAddress ==
    /\ NoParcelAtItsAddress(self)
    /\ NoParcelAtItsAddress(moved)
    /\ \A k \in 1..Len(self.parcels) :
          (/\ destination # ""
           /\ includes(roadGraph[self.place], destination)
           /\ self.parcels[k].place = self.place
           /\ self.parcels[k].address = destination)
          => Len(moved.parcels) < Len(self.parcels)

C12_Witness ==
    /\ destination # "" /\ includes(roadGraph[self.place], destination)
    /\ self.place # "Post Office"
    /\ Len(self.parcels) = 3 /\ Len(moved.parcels) = 1
    /\ NoParcelAtItsAddress(moved)

\* C13: from a state whose place is a key of roadGraph, after any sequence of
\* move calls with arbitrary arguments, names that are no place included, the
\* state's place is still a key of roadGraph.
C13_PlaceIsAlwaysAKey ==
    /\ self.place \in DOMAIN roadGraph
    /\ moved.place \in DOMAIN roadGraph
    /\ selfAfter.place \in DOMAIN roadGraph

C13_Witness ==
    /\ destination = "Nowhere"
    /\ self.place \notin {"Post Office", "Alice's House", "Marketplace"}
    /\ moved.place \in DOMAIN roadGraph

\* C14: move never mutates the state it is called on: after state.move(d), for
\* any d, the original state's place and parcel list (length, order, each
\* parcel's place and address) are what they were before the call.
C14_MoveLeavesReceiverUnchanged ==
    destination # "" =>
        /\ selfAfter.place = self.place
        /\ Len(selfAfter.parcels) = Len(self.parcels)
        /\ \A k \in 1..Len(self.parcels) :
              /\ selfAfter.parcels[k].place = self.parcels[k].place
              /\ selfAfter.parcels[k].address = self.parcels[k].address

C14_Witness ==
    /\ destination # "" /\ includes(roadGraph[self.place], destination)
    /\ Len(self.parcels) = 3 /\ Len(moved.parcels) = 2
    /\ moved.place # self.place
    /\ \E k \in 1..2 : moved.parcels[k].place = destination
    /\ selfAfter = self

----------------------------------------------------------------------------
(* The strategies. A strategy's outcomes are the actions it can return; a    *)
(* strategy that reads a property of undefined or null throws instead.       *)

\* mailRoute going from the Cabin straight to Bob's House, where no road leads
mailRouteShortcut ==
    <<"Alice's House", "Cabin", "Bob's House", "Town Hall",
      "Daria's House", "Ernie's House", "Grete's House", "Shop", "Grete's House",
      "Farm", "Marketplace", "Post Office">>

\* mailRoute with the detour to the Cabin left out
mailRouteWithoutCabin ==
    <<"Alice's House", "Bob's House", "Town Hall",
      "Daria's House", "Ernie's House", "Grete's House", "Shop", "Grete's House",
      "Farm", "Marketplace", "Post Office">>

\* the mail truck's route
mailRoute ==
    <<"Alice's House", "Cabin", "Alice's House", "Bob's House", "Town Hall",
      "Daria's House", "Ernie's House", "Grete's House", "Shop", "Grete's House",
      "Farm", "Marketplace", "Post Office">>

\* { direction: route[0], memory: route.slice(1) }
follow(route) ==
    IF Len(route) = 0
    THEN [direction |-> "undefined", memory |-> <<>>]
    ELSE [direction |-> route[1], memory |-> Tail(route)]

\* randomRobot(state): randomPick can return each element of the array
randomRobot(s) ==
    {[direction |-> roadGraph[s.place][k], memory |-> Undefined] :
        k \in 1..Len(roadGraph[s.place])}

\* routeRobot(state, memory)
routeRobot(s, m) ==
    {follow(IF Len(m) = 0 THEN mailRoute ELSE m)}

\* goalOrientedRobot heading for the first parcel's place even when it carries it
goalTargetNeverAddress(s) == s.parcels[1].place

\* the place goalOrientedRobot plans a route to
goalTarget(s) ==
    LET parcel == s.parcels[1]
    IN  IF parcel.place # s.place THEN parcel.place ELSE parcel.address

goalOrientedThrows(s, route) ==
    Len(route) = 0 /\ (Len(s.parcels) = 0 \/ findRoute(roadGraph, s.place, goalTarget(s)) = Undefined)

\* goalOrientedRobot({place, parcels}, route)
goalOrientedRobot(s, route) ==
    {follow(IF Len(route) = 0 THEN findRoute(roadGraph, s.place, goalTarget(s)) ELSE route)}

\* findClosestParcel's loop comparing with <=: the last closest parcel wins
RECURSIVE closestFromLastOnTies(_, _, _, _, _, _)
closestFromLastOnTies(currentLocation, parcels, g, k, closest, shortestDistance) ==
    IF k > Len(parcels) THEN closest
    ELSE LET parcel == parcels[k]
             target == IF parcel.place # currentLocation THEN parcel.place ELSE parcel.address
             distance == calculateDistance(g, currentLocation, target)
         IN  IF distance <= shortestDistance
             THEN closestFromLastOnTies(currentLocation, parcels, g, k + 1, k, distance)
             ELSE closestFromLastOnTies(currentLocation, parcels, g, k + 1, closest, shortestDistance)

\* the loop of findClosestParcel over parcels[k..]; no parcel is the index 0
RECURSIVE closestFrom(_, _, _, _, _, _)
closestFrom(currentLocation, parcels, g, k, closest, shortestDistance) ==
    IF k > Len(parcels) THEN closest
    ELSE LET parcel == parcels[k]
             target == IF parcel.place # currentLocation THEN parcel.place ELSE parcel.address
             distance == calculateDistance(g, currentLocation, target)
         IN  IF distance < shortestDistance
             THEN closestFrom(currentLocation, parcels, g, k + 1, k, distance)
             ELSE closestFrom(currentLocation, parcels, g, k + 1, closest, shortestDistance)

\* findClosestParcel(currentLocation, parcels, graph): the index of the parcel
\* it returns, 0 for null
findClosestParcel(currentLocation, parcels, g) ==
    closestFrom(currentLocation, parcels, g, 1, 0, Infinity)

\* quicknessRobot heading for the closest parcel's place even when it carries it
quicknessTargetNeverAddress(s) ==
    s.parcels[findClosestParcel(s.place, s.parcels, roadGraph)].place

\* the place quicknessRobot plans a route to
quicknessTarget(s) ==
    LET closestParcel == s.parcels[findClosestParcel(s.place, s.parcels, roadGraph)]
    IN  IF closestParcel.place # s.place THEN closestParcel.place ELSE closestParcel.address

quicknessThrows(s, route) ==
    Len(route) = 0 /\
        (\/ findClosestParcel(s.place, s.parcels, roadGraph) = 0
         \/ findRoute(roadGraph, s.place, quicknessTarget(s)) = Undefined)

\* quicknessRobot({place, parcels}, route)
quicknessRobot(s, route) ==
    {follow(IF Len(route) = 0 THEN findRoute(roadGraph, s.place, quicknessTarget(s)) ELSE route)}

Robots == {"randomRobot", "routeRobot", "goalOrientedRobot", "quicknessRobot"}

\* robot(state, memory) throws a TypeError
robotThrows(r, s, m) ==
    CASE r = "goalOrientedRobot" -> goalOrientedThrows(s, m)
      [] r = "quicknessRobot" -> quicknessThrows(s, m)
      [] OTHER -> FALSE

\* the actions robot(state, memory) can return
robotActions(r, s, m) ==
    CASE r = "randomRobot" -> randomRobot(s)
      [] r = "routeRobot" -> routeRobot(s, m)
      [] r = "goalOrientedRobot" -> goalOrientedRobot(s, m)
      [] r = "quicknessRobot" -> quicknessRobot(s, m)

\* the route robot(state, memory) plans when it is out of route memory: the
\* state it is planned on, the place it leads to, and what findRoute returned;
\* old when the strategy plans none
robotPlan(r, s, m, old) ==
    IF r \in {"goalOrientedRobot", "quicknessRobot"} /\ Len(m) = 0
    THEN LET target == IF r = "goalOrientedRobot" THEN goalTarget(s) ELSE quicknessTarget(s)
         IN  [state |-> s, target |-> target, route |-> findRoute(roadGraph, s.place, target)]
    ELSE old

\* the memory the program's calls of runRobot pass for each strategy
initialMemory(r) == IF r = "randomRobot" THEN Undefined ELSE <<>>

----------------------------------------------------------------------------
(* runRobot. *)

\* the most parcels of a task
MaxParcels == 2

\* the places the parcels of a task are drawn from
TaskPlaces == {"Post Office", "Alice's House", "Marketplace", "Ernie's House"}

\* the most parcels of a task whose parcels are drawn from every place
MaxWideParcels == 1

\* randomRobot is driven for at most this many turns
MaxRandomTurns == 4

\* the check of the parcel list written so that it never succeeds
solvedNever(s) == Len(s.parcels) < 0

\* state.parcels.length == 0
solved(s) == Len(s.parcels) = 0

\* the turn counter's first value: let turn = 0
firstTurn == 0

RunInit(tasks) ==
    /\ task \in tasks
    /\ robot \in Robots
    /\ state = task
    /\ memory = initialMemory(robot)
    /\ turn = firstTurn
    /\ rpc = "run"
    /\ returned = 0
    /\ calls = 0
    /\ calledOnSolved = FALSE
    /\ aliased = TRUE
    /\ plan = NoPlan
    /\ lastAction = NoAction
    /\ GraphIdle /\ MoveIdle /\ PGroupIdle /\ CompareIdle

\* runRobot(task, robot, memory) on a task of few parcels at a few places
Init == RunInit(UNION {WorldStateRandom(TaskPlaces, n) : n \in 0..MaxParcels})

\* runRobot(task, robot, memory) on a task of fewer parcels at any places
WideInit == RunInit(UNION {WorldStateRandom(DOMAIN roadGraph, n) : n \in 0..MaxWideParcels})

\* the loop finds the state solved: return turn
Finish ==
    /\ rpc = "run"
    /\ solved(state)
    /\ returned' = turn
    /\ rpc' = "done"
    /\ UNCHANGED <<task, robot, state, memory, turn, calls, calledOnSolved>>
    /\ UNCHANGED <<aliased, plan, lastAction>>
    /\ UNCHANGED <<gvars, mvars, pvars, cvars>>

\* one turn of the loop: the strategy is asked, the state moves, turn++
Turn ==
    /\ rpc = "run"
    /\ ~solved(state)
    /\ robot = "randomRobot" => turn < MaxRandomTurns
    /\ calls' = calls + 1
    /\ calledOnSolved' = (calledOnSolved \/ Len(state.parcels) = 0)
    /\ IF robotThrows(robot, state, memory)
       THEN /\ rpc' = "threw"
            /\ UNCHANGED <<task, state, memory, turn, aliased, plan, lastAction>>
       ELSE \E action \in robotActions(robot, state, memory) :
               LET call == moveCall(state, action.direction)
               IN  /\ state' = call.returned
                   /\ task' = IF aliased THEN call.this ELSE task
                   /\ aliased' = (aliased /\ call.same)
                   /\ memory' = action.memory
                   /\ turn' = turn + 1
                   /\ rpc' = rpc
                   /\ plan' = robotPlan(robot, state, memory, plan)
                   /\ lastAction' = [at |-> state.place, direction |-> action.direction]
    /\ UNCHANGED <<robot, returned>>
    /\ UNCHANGED <<gvars, mvars, pvars, cvars>>

Next == Finish \/ Turn

Spec == Init /\ [][Next]_vars

WideSpec == WideInit /\ [][Next]_vars

\* runRobot's loop runs on: nothing else is scheduled
\* no step of the loop is possible: runRobot has returned or thrown, or the
\* random strategy has used up the turns it is given here
Halted == rpc # "run" \/ (robot = "randomRobot" /\ turn >= MaxRandomTurns)

\* the loop of runRobot keeps running while it can: weak fairness of Next,
\* WF_vars(Next), written with Halted for ~ENABLED <<Next>>_vars (in a state
\* that is not Halted either Finish or Turn can be taken, and both change rpc
\* or turn)
FairSpec == Spec /\ ([]<>Halted \/ []<><<Next>>_vars)

----------------------------------------------------------------------------
(* What the claims about runRobot speak of. *)

\* C9: runRobot never invokes the strategy on a solved state; the count it
\* returns is the number of strategy invocations made, and a task with zero
\* parcels yields 0 with no invocation.
C9_StrategyNeverSeesSolvedState ==
    /\ ~calledOnSolved
    /\ rpc \in {"run", "done"} => calls = turn
    /\ rpc = "done" => returned = calls /\ Len(state.parcels) = 0
    /\ (rpc = "done" /\ Len(task.parcels) = 0) => returned = 0 /\ calls = 0

C9_Witness ==
    /\ rpc = "done" /\ Len(task.parcels) = 2
    /\ returned >= 3 /\ calls = returned

\* two traversals of mailRoute
TwoTraversals == 2 * Len(mailRoute)

\* C10: with the robot at Post Office, empty memory and parcels whose place and
\* address are distinct places, runRobot with routeRobot ends within two
\* traversals of mailRoute: it returns a turn count of at most 26.
C10_RouteRobotWithinTwoTraversals ==
    robot = "routeRobot" =>
        /\ rpc # "threw"
        /\ turn <= TwoTraversals
        /\ turn = TwoTraversals => Len(state.parcels) = 0
        /\ rpc = "done" => returned <= TwoTraversals /\ Len(state.parcels) = 0

C10_Witness ==
    /\ robot = "routeRobot" /\ rpc = "done"
    /\ task.place = "Post Office" /\ Len(task.parcels) >= 1
    /\ returned > Len(mailRoute)

\* the place a parcel of s has to be taken to next: the place of the parcel
\* when the robot is elsewhere, its address when the robot is where it is
NextPoint(s, k) ==
    IF s.parcels[k].place # s.place THEN s.parcels[k].place ELSE s.parcels[k].address

\* the first parcel of s among those whose next point is closest to the robot
FirstClosest(s) ==
    CHOOSE k \in 1..Len(s.parcels) :
        /\ \A j \in 1..Len(s.parcels) :
              MinHops(roadGraph, s.place, NextPoint(s, k)) <= MinHops(roadGraph, s.place, NextPoint(s, j))
        /\ \A j \in 1..(k - 1) :
              MinHops(roadGraph, s.place, NextPoint(s, j)) > MinHops(roadGraph, s.place, NextPoint(s, k))

\* C17: when quicknessRobot is called with empty route memory on a state with
\* at least one parcel, the route it plans leads to the next point of the
\* parcel closest to the robot, the first such parcel on ties, and the route is
\* as long as that least distance.
C17_QuicknessPlansToClosest ==
    (robot = "quicknessRobot" /\ plan # NoPlan) =>
        LET s == plan.state
            best == FirstClosest(s)
        IN  /\ Len(s.parcels) >= 1
            /\ plan.target = NextPoint(s, best)
            /\ plan.route # Undefined
            /\ Len(plan.route) = MinHops(roadGraph, s.place, NextPoint(s, best))
            /\ plan.route[Len(plan.route)] = plan.target
            /\ FollowsRoads(roadGraph, s.place, plan.route)

C17_Witness ==
    /\ robot = "quicknessRobot" /\ plan # NoPlan
    /\ Len(plan.state.parcels) = 2
    /\ NextPoint(plan.state, 1) # NextPoint(plan.state, 2)
    /\ MinHops(roadGraph, plan.state.place, NextPoint(plan.state, 1))
         = MinHops(roadGraph, plan.state.place, NextPoint(plan.state, 2))
    /\ plan.target = NextPoint(plan.state, 1)
    /\ memory = <<>> /\ turn >= 1

PlanningRobots == {"goalOrientedRobot", "quicknessRobot"}

\* the parcels of s that are where the robot is
Carried(s) == {k \in 1..Len(s.parcels) : s.parcels[k].place = s.place}

\* the planned route has been walked to its end
RouteCompleted == plan # NoPlan /\ memory = <<>>

\* C18: for goalOrientedRobot and quicknessRobot, on every task of
\* WorldState.random with empty initial memory, runRobot reaches a state with no
\* parcels and returns; each completed route picks up a parcel that was not yet
\* carried or delivers one.
C18_PlanningRobotsTerminate ==
    /\ [](robot \in PlanningRobots => rpc # "threw")
    /\ []((robot \in PlanningRobots /\ RouteCompleted) =>
            \/ Len(state.parcels) < Len(plan.state.parcels)
            \/ Cardinality(Carried(state)) > Cardinality(Carried(plan.state)))
    /\ ((robot \in PlanningRobots /\ rpc = "run") ~> (rpc = "done" /\ Len(state.parcels) = 0))

C18_Witness ==
    /\ robot \in PlanningRobots /\ rpc = "done"
    /\ Len(task.parcels) = 2 /\ Len(state.parcels) = 0
    /\ returned >= 8

\* C19: in every run of runRobot from a WorldState.random task, every direction
\* a strategy returns is a neighbour of the robot's place, so no move is
\* absorbed as a no-op and each turn changes the robot's place.
C19_EveryDirectionIsANeighbour ==
    lastAction # NoAction =>
        /\ lastAction.at \in DOMAIN roadGraph
        /\ lastAction.direction \in Neighbours(roadGraph, lastAction.at)
        /\ state.place = lastAction.direction
        /\ state.place # lastAction.at

C19_Witness ==
    /\ robot = "routeRobot" /\ turn > Len(mailRoute)
    /\ lastAction.direction \in Neighbours(roadGraph, lastAction.at)
    /\ state.place = lastAction.direction

\* C20: in every run of runRobot from a WorldState.random task with empty
\* memory, goalOrientedRobot and quicknessRobot never call findRoute with from
\* equal to to and never get undefined from it: the target chosen on an
\* unsolved state differs from the robot's place and is reachable, and the
\* planned route is not empty.
C20_PlannedRouteIsNeverEmpty ==
    robot \in PlanningRobots =>
        /\ rpc # "threw"
        /\ plan # NoPlan =>
              /\ Len(plan.state.parcels) >= 1
              /\ plan.target # plan.state.place
              /\ Reachable(roadGraph, plan.state.place, plan.target)
              /\ plan.route # Undefined
              /\ Len(plan.route) >= 1

C20_Witness ==
    /\ robot = "goalOrientedRobot" /\ plan # NoPlan
    /\ plan.state.parcels[1].place = plan.state.place
    /\ plan.target = plan.state.parcels[1].address
    /\ plan.state.place # "Post Office"
    /\ Len(plan.route) >= 2

----------------------------------------------------------------------------
(* PGroup.  The instances live on a heap and are named by their index in   *)
(* it; an instance is a record holding its group array.                    *)

\* the number NaN, which === finds equal to nothing, itself included
NaN == "NaN"

\* the values put into groups
Elements == {"Apple", "Orange", NaN}

\* how many instances are made at most
MaxInstances == 4

\* how long an array PGroup.from is given at most
MaxFromLength == 2

\* a === b
strictEquals(a, b) == a = b /\ a # NaN

\* array.indexOf(x): the first index, counted from 0, of an element === x,
\* or -1
indexOf(array, x) ==
    IF \E k \in 1..Len(array) : strictEquals(array[k], x)
    THEN (CHOOSE k \in 1..Len(array) :
             /\ strictEquals(array[k], x)
             /\ \A j \in 1..(k - 1) : ~strictEquals(array[j], x)) - 1
    ELSE -1

\* array.splice(index, 1): the element at index, counted from 0, is removed
splice(array, index) ==
    [k \in 1..(Len(array) - 1) |-> IF k <= index THEN array[k] ELSE array[k + 1]]

\* new PGroup() on heap h
construct(h) == Append(h, [group |-> <<>>])

\* h[this].add(x): the heap after the call and the instance returned
addCall(h, this, x) ==
    IF indexOf(h[this].group, x) = -1
    THEN [heap |-> Append(h, [group |-> h[this].group \o <<x>>]), returned |-> Len(h) + 1]
    ELSE [heap |-> h, returned |-> this]

\* h[this].delete(x): the heap after the call and the instance returned
deleteCall(h, this, x) ==
    LET index == indexOf(h[this].group, x)
    IN  IF index # -1
        THEN [heap |-> Append(h, [group |-> splice(h[this].group, index)]),
              returned |-> Len(h) + 1]
        ELSE [heap |-> h, returned |-> this]

\* h[this].has(x): includes finds NaN too
has(h, this, x) == includes(h[this].group, x)

\* PGroup.from's loop from position k of arr on: each add is called on
\* newGroup and its result is dropped; newGroup is what the call left of it
RECURSIVE fromLoop(_, _, _)
fromLoop(newGroup, arr, k) ==
    IF k > Len(arr) THEN newGroup
    ELSE fromLoop(addCall(<<newGroup>>, 1, arr[k]).heap[1], arr, k + 1)

\* PGroup.from(arr) on heap h
fromCall(h, arr) ==
    [heap |-> Append(h, fromLoop([group |-> <<>>], arr, 1)), returned |-> Len(h) + 1]

\* created, extended by the group arrays of the instances h has beyond old
constructed(old, h) ==
    created \o [k \in 1..(Len(h) - Len(old)) |-> h[Len(old) + k].group]

\* let emptyGroup = new PGroup()
PGroupInit ==
    /\ heap = construct(<<>>)
    /\ created = <<heap[1].group>>
    /\ last = NoCall
    /\ GraphIdle /\ MoveIdle /\ RobotIdle /\ CompareIdle

PAdd(this, x) ==
    LET call == addCall(heap, this, x)
    IN  /\ Len(call.heap) <= MaxInstances
        /\ heap' = call.heap
        /\ created' = constructed(heap, call.heap)
        /\ last' = [op |-> "add", this |-> this, x |-> x, arr |-> <<>>,
                    returned |-> call.returned, before |-> Len(heap)]
        /\ UNCHANGED <<gvars, mvars, rvars, cvars>>

PDelete(this, x) ==
    LET call == deleteCall(heap, this, x)
    IN  /\ Len(call.heap) <= MaxInstances
        /\ heap' = call.heap
        /\ created' = constructed(heap, call.heap)
        /\ last' = [op |-> "delete", this |-> this, x |-> x, arr |-> <<>>,
                    returned |-> call.returned, before |-> Len(heap)]
        /\ UNCHANGED <<gvars, mvars, rvars, cvars>>

\* PGroup.empty
PEmpty ==
    /\ Len(heap) < MaxInstances
    /\ heap' = construct(heap)
    /\ created' = constructed(heap, heap')
    /\ last' = [op |-> "empty", this |-> 0, x |-> "", arr |-> <<>>,
                returned |-> Len(heap) + 1, before |-> Len(heap)]
    /\ UNCHANGED <<gvars, mvars, rvars, cvars>>

PFrom(arr) ==
    LET call == fromCall(heap, arr)
    IN  /\ Len(call.heap) <= MaxInstances
        /\ heap' = call.heap
        /\ created' = constructed(heap, call.heap)
        /\ last' = [op |-> "from", this |-> 0, x |-> "", arr |-> arr,
                    returned |-> call.returned, before |-> Len(heap)]
        /\ UNCHANGED <<gvars, mvars, rvars, cvars>>

PGroupNext ==
    \/ \E this \in 1..Len(heap), x \in Elements : PAdd(this, x)
    \/ \E this \in 1..Len(heap), x \in Elements : PDelete(this, x)
    \/ PEmpty
    \/ \E arr \in SeqsUpTo(Elements, MaxFromLength) : PFrom(arr)

PGroupSpec == PGroupInit /\ [][PGroupNext]_vars

----------------------------------------------------------------------------
(* What the claims about PGroup speak of. *)

\* every instance holds the group array it was constructed with
PriorInstancesUnchanged == \A k \in 1..Len(heap) : heap[k].group = created[k]

\* the latest call returned an instance that did not exist before it
ReturnedNewInstance == last.returned > last.before

\* C15: every PGroup add and delete returns a new instance, and every
\* instance obtained earlier has the members it had when it was created.
C15_EveryCallReturnsNewInstance ==
    /\ last.op \in {"add", "delete"} => ReturnedNewInstance
    /\ PriorInstancesUnchanged

\* no element occurs twice in the array
DuplicateFree(array) ==
    \A j, k \in 1..Len(array) : j # k => array[j] # array[k]

\* C16: PGroup is a duplicate-free set under any sequence of add and delete
\* from the empty group: g.add(x).has(x) is true, g.delete(x).has(x) is false,
\* has(y) for y other than x is not changed by add(x) or delete(x), the empty
\* group has no member, and no backing array holds an element twice.
C16_DuplicateFreeSet ==
    /\ last.op = "add" => has(heap, last.returned, last.x)
    /\ last.op = "delete" => ~has(heap, last.returned, last.x)
    /\ last.op \in {"add", "delete"} =>
          \A y \in Elements \ {last.x} :
              has(heap, last.returned, y) = has(heap, last.this, y)
    /\ last.op = "empty" => \A y \in Elements : ~has(heap, last.returned, y)
    /\ \A k \in 1..Len(heap) : DuplicateFree(heap[k].group)

----------------------------------------------------------------------------
(* compareRobots: for each task, runRobot is run on it with the first      *)
(* strategy and then with the second; Turn and Finish are runRobot's steps. *)

\* the most tasks compareRobots is asked for
MaxTasks == 2

\* the most parcels of a task compareRobots generates
MaxCompareParcels == 2

\* the places its tasks' parcels are drawn from
CompareTaskPlaces == {"Post Office", "Alice's House", "Marketplace"}

\* the strategies compared: those whose runs need no cap on their turns
ComparedRobots == {"routeRobot", "goalOrientedRobot", "quicknessRobot"}

\* what WorldState.random() can return
CompareTasks == UNION {WorldStateRandom(CompareTaskPlaces, n) : n \in 1..MaxCompareParcels}

\* runRobot(t, r, (memory = [])) is entered
EnterRunRobot(t, r) ==
    /\ task' = t
    /\ robot' = r
    /\ state' = t
    /\ memory' = <<>>
    /\ turn' = firstTurn
    /\ rpc' = "run"
    /\ returned' = 0
    /\ calls' = 0
    /\ calledOnSolved' = FALSE
    /\ aliased' = TRUE
    /\ plan' = NoPlan
    /\ lastAction' = NoAction

\* compareRobots(robot1, robot2, tasks) is called
CompareInit ==
    /\ cpc = "loop"
    /\ robot1 \in ComparedRobots
    /\ robot2 \in ComparedRobots
    /\ taskCount \in 0..MaxTasks
    /\ taskNo = 0
    /\ robot1TotalTurns = 0
    /\ robot2TotalTurns = 0
    /\ generated = NoState
    /\ handed = <<>>
    /\ comparison = NoComparison
    /\ GraphIdle /\ MoveIdle /\ RobotIdle /\ PGroupIdle

\* i < tasks: a task is generated and runRobot is entered with robot1
FirstRun ==
    /\ cpc = "loop"
    /\ taskNo < taskCount
    /\ \E t \in CompareTasks :
          /\ generated' = t
          /\ handed' = <<[state |-> t, memory |-> <<>>]>>
          /\ EnterRunRobot(t, robot1)
    /\ cpc' = "first"
    /\ UNCHANGED <<robot1, robot2, taskCount, taskNo, robot1TotalTurns, robot2TotalTurns, comparison>>
    /\ UNCHANGED <<gvars, mvars, pvars>>

\* the first run has returned: its turns are added, and runRobot is entered
\* with the same task object and robot2
SecondRun ==
    /\ cpc = "first"
    /\ rpc = "done"
    /\ robot1TotalTurns' = robot1TotalTurns + returned
    /\ handed' = Append(handed, [state |-> task, memory |-> <<>>])
    /\ EnterRunRobot(task, robot2)
    /\ cpc' = "second"
    /\ UNCHANGED <<robot1, robot2, taskCount, taskNo, robot2TotalTurns, generated, comparison>>
    /\ UNCHANGED <<gvars, mvars, pvars>>

\* the second run has returned: its turns are added, i++, and the task goes
\* out of scope
EndOfTask ==
    /\ cpc = "second"
    /\ rpc = "done"
    /\ robot2TotalTurns' = robot2TotalTurns + returned
    /\ taskNo' = taskNo + 1
    /\ cpc' = "loop"
    /\ generated' = NoState
    /\ handed' = <<>>
    /\ task' = NoState /\ robot' = "" /\ state' = NoState /\ memory' = <<>>
    /\ turn' = 0 /\ rpc' = "off" /\ returned' = 0 /\ calls' = 0 /\ calledOnSolved' = FALSE
    /\ aliased' = FALSE /\ plan' = NoPlan /\ lastAction' = NoAction
    /\ UNCHANGED <<robot1, robot2, taskCount, robot1TotalTurns, comparison>>
    /\ UNCHANGED <<gvars, mvars, pvars>>

\* the loop is over: the averages are returned
CompareReturn ==
    /\ cpc = "loop"
    /\ ~(taskNo < taskCount)
    /\ comparison' =
          [robot1 |-> [name |-> robot1, averageTurns |-> Average(robot1TotalTurns, taskCount)],
           robot2 |-> [name |-> robot2, averageTurns |-> Average(robot2TotalTurns, taskCount)]]
    /\ cpc' = "returned"
    /\ UNCHANGED <<robot1, robot2, taskCount, taskNo, robot1TotalTurns, robot2TotalTurns,
                   generated, handed>>
    /\ UNCHANGED <<gvars, mvars, rvars, pvars>>

CompareNext == FirstRun \/ Turn \/ Finish \/ SecondRun \/ EndOfTask \/ CompareReturn

CompareSpec == CompareInit /\ [][CompareNext]_vars

\* C11: in compareRobots, every run on a task is handed the state that was
\* generated for it: the second run gets the same place and the same parcel
\* list as the first, the first run leaves the task as it was, and both runs
\* start from empty memory.
C11_BothRunsGetTheSameTask ==
    /\ \A k \in 1..Len(handed) :
          /\ handed[k].state = generated
          /\ handed[k].memory = <<>>
    /\ Len(handed) = 2 =>
          /\ handed[2].state.place = handed[1].state.place
          /\ handed[2].state.parcels = handed[1].state.parcels
    /\ cpc \in {"first", "second"} => task = generated

C11_Witness ==
    /\ cpc = "second" /\ rpc = "done"
    /\ taskNo = 1
    /\ Len(handed) = 2
    /\ Len(generated.parcels) = 2
    /\ robot1 # robot2
    /\ robot1TotalTurns >= 3
    /\ returned >= 1
    /\ ~solved(handed[2].state)

====
